---- MODULE Spec2Model ----
\* Model of the Copy Circuit witness assignment (CopyCircuit::assign_block,
\* assign_step, assign_padding_row) and of the three gates registered by
\* CopyCircuit::configure, from zkevm-circuits/src/copy_circuit.rs.
\*
\* Field elements are modelled by the integers they embed: every value the
\* bounded inputs produce is far below the field modulus, so no reduction
\* happens.  The addr column can hold the packed TxLog address, whose parts sit
\* at bits 0..31, 32..47 and 48.. of a 256-bit integer; it is kept as the three
\* limbs [lo, mid, hi].
\*
\* The region is the function offset -> row.  When the rows of an event are
\* complete, all but the last two rows are dropped from the state: no gate
\* queries further than Rotation(2), and the counters n_assigned / total_bytes
\* keep what the dropped rows contributed.
EXTENDS Integers, Sequences, FiniteSets, TLC

\* ------------------------------------------------------------------ bounds
MaxEvents == 2
MaxLen == 2

\* ------------------------------------------------------- program constants
\* H256 is 32 bytes.
HashLen == 32
\* TxLogFieldTag::Data as u64
TxLogFieldTagData == 3

\* ------------------------------------------------------------------ inputs
CopyDataType == {"Memory", "Bytecode", "TxCalldata", "TxLog", "RlcAcc"}
\* CopyDataType::default(), the tag of a padding row.
DefaultTag == "Memory"

SrcTypes == {"Memory", "Bytecode", "TxCalldata"}
Randomness == {3}
\* (value, is_code) pairs of CopyEvent.bytes
ByteSet == {<<0, FALSE>>, <<1, TRUE>>}
SrcAddrs == {1}
\* at src_addr (every read is padded), and one and two bytes past it
SrcAddrEnds == {1, 2, 3}
DstAddrs == {5}
RwCounterStarts == {1}
None == [some |-> FALSE, v |-> 0]
Some(x) == [some |-> TRUE, v |-> x]
\* log_id: Option<u64>, read only when dst_type = TxLog
LogIds(dst_type) == IF dst_type = "TxLog" THEN {None, Some(1)} ELSE {None}

Number(n) == [kind |-> "Number", n |-> n, h |-> <<>>]
Hash(h) == [kind |-> "Hash", n |-> 0, h |-> h]
\* a big-endian H256 0x00..0107
CodeHash == [i \in 1..HashLen |-> IF i = HashLen THEN 7 ELSE IF i = HashLen - 1 THEN 1 ELSE 0]
\* a bytecode region is named by its code hash, any other by a number
IdsOf(type, n) == IF type = "Bytecode" THEN {Hash(CodeHash)} ELSE {Number(n)}

RECURSIVE SeqsUpTo(_, _)
SeqsUpTo(S, n) ==
  IF n = 0 THEN {<<>>}
  ELSE LET shorter == SeqsUpTo(S, n - 1)
       IN shorter \cup {Append(s, x) : s \in {t \in shorter : Len(t) = n - 1}, x \in S}

\* (src_type, dst_type) of the events: every source with a Memory or RlcAcc
\* destination, and the log copy from memory
TypePairs == (SrcTypes \X {"Memory", "RlcAcc"}) \cup {<<"Memory", "TxLog">>}

CopyEvents ==
  UNION {
    [src_type : {tp[1]}, dst_type : {tp[2]},
     src_id : IdsOf(tp[1], 1), dst_id : IdsOf(tp[2], 2),
     src_addr : SrcAddrs, src_addr_end : SrcAddrEnds, dst_addr : DstAddrs,
     log_id : LogIds(tp[2]), rw_counter_start : RwCounterStarts,
     bytes : SeqsUpTo(ByteSet, MaxLen)]
    : tp \in TypePairs}

NoEvent ==
  [src_type |-> "Memory", dst_type |-> "Memory", src_id |-> Number(0),
   dst_id |-> Number(0), src_addr |-> 0, src_addr_end |-> 0, dst_addr |-> 0,
   log_id |-> None, rw_counter_start |-> 0, bytes |-> <<>>]

\* ------------------------------------------------------------ pure helpers
Reverse(s) == [i \in 1..Len(s) |-> s[Len(s) + 1 - i]]

\* rlc::value(values, r) = Sum values[i] * r^i
RECURSIVE rlc_value(_, _)
rlc_value(values, r) ==
  IF values = <<>> THEN 0 ELSE Head(values) + r * rlc_value(Tail(values), r)

\* RandomLinearCombination::random_linear_combine(bytes, r) = Sum bytes[i] * r^i
random_linear_combine(bytes, r) == rlc_value(bytes, r)

number_or_hash_to_field(v, randomness) ==
  IF v.kind = "Number" THEN v.n
  ELSE LET le_bytes == Reverse(v.h)
       IN random_linear_combine(le_bytes, randomness)

\* F::from(u64) in the addr column
FromU64(n) == [lo |-> n, mid |-> 0, hi |-> 0]
\* (U256::from(a) + (U256::from(Data) << 32) + (U256::from(log_id) << 48))
\*   .to_address().to_scalar().unwrap()
TxLogAddr(copy_step_addr, log_id) ==
  [lo |-> copy_step_addr, mid |-> TxLogFieldTagData, hi |-> log_id]
\* addr + 1 in the field
AddrPlusOne(a) == [a EXCEPT !.lo = @ + 1]
\* a >= n for an addr column value a and a u64 n below 2^32
AddrGe(a, n) == a.hi > 0 \/ a.mid > 0 \/ a.lo >= n

BoolToF(b) == IF b THEN 1 ELSE 0


\* --------------------------------------------------------------- the rows
Columns ==
  {"q_enable", "q_step", "is_first", "is_last", "id", "addr", "src_addr_end",
   "bytes_left", "value", "rlc_acc", "is_code", "is_pad", "rw_counter",
   "rwc_inc_left", "tag", "lt"}
\* writes src_addr_end and bytes_left on write rows as well
StepColumns_all == Columns \ {"q_step", "lt"}
\* the columns assign_step writes on every row
StepColumns ==
  {"q_enable", "is_first", "is_last", "id", "addr", "value", "rlc_acc",
   "is_code", "is_pad", "rw_counter", "rwc_inc_left", "tag"}
\* the columns assign_step writes on read rows only
ReadOnlyColumns == {"q_step", "src_addr_end", "bytes_left", "lt"}
\* the columns assign_padding_row writes
PaddingColumns ==
  {"q_enable", "is_first", "is_last", "id", "addr", "src_addr_end",
   "bytes_left", "value", "rlc_acc", "is_code", "is_pad", "rw_counter",
   "rwc_inc_left", "tag"}

\* the (is_read_step, copy_step) pairs of lines 405-427, 0-based step index
StepByte(copy_event, step_idx) == copy_event.bytes[(step_idx \div 2) + 1]
IsReadStep(step_idx) == step_idx % 2 = 0
CopyStep(copy_event, step_idx) ==
  LET b == StepByte(copy_event, step_idx)
      type == IF IsReadStep(step_idx) THEN copy_event.src_type ELSE copy_event.dst_type
  IN [value |-> b[1],
      is_code |-> IF type = "Bytecode" THEN Some(b[2]) ELSE None]

\* forgets to reverse the bytes
EventRlcAcc_norev(copy_event, randomness) ==
  IF copy_event.dst_type = "RlcAcc"
  THEN LET values == [i \in 1..Len(copy_event.bytes) |-> copy_event.bytes[i][1]]
       IN rlc_value(values, randomness)
  ELSE 0

\* accumulates for every destination type
EventRlcAcc_always(copy_event, randomness) ==
  LET values == [i \in 1..Len(copy_event.bytes) |-> copy_event.bytes[i][1]]
  IN rlc_value(Reverse(values), randomness)

\* rlc_acc of an event
EventRlcAcc(copy_event, randomness) ==
  IF copy_event.dst_type = "RlcAcc"
  THEN LET values == [i \in 1..Len(copy_event.bytes) |-> copy_event.bytes[i][1]]
       IN rlc_value(Reverse(values), randomness)
  ELSE 0

\* multiplies the byte instead of the accumulator
NextValueAcc_swapped(copy_event, is_read_step, copy_step, acc, randomness) ==
  IF copy_event.dst_type = "RlcAcc" /\ ~is_read_step
  THEN acc + copy_step.value * randomness
  ELSE acc

\* value_acc after the step
NextValueAcc(copy_event, is_read_step, copy_step, acc, randomness) ==
  IF copy_event.dst_type = "RlcAcc" /\ ~is_read_step
  THEN acc * randomness + copy_step.value
  ELSE acc

\* the value handed to assign_step
StepValue(copy_event, is_read_step, copy_step, acc, randomness) ==
  IF copy_event.dst_type = "RlcAcc"
  THEN IF is_read_step
       THEN copy_step.value
       ELSE NextValueAcc(copy_event, is_read_step, copy_step, acc, randomness)
  ELSE copy_step.value

\* skips every other offset
NextOffset_skip(off) == off + 2
NextOffset(off) == off + 1
\* forgets the write step of each byte
NumSteps_half(copy_event) == Len(copy_event.bytes)
\* the inner loop runs over a read and a write step per byte
NumSteps(copy_event) == 2 * Len(copy_event.bytes)

IsRead(step_idx) == step_idx % 2 = 0
\* marks the first write row too
IsFirst_pair(step_idx) == step_idx <= 1
IsFirst(step_idx) == step_idx = 0
\* marks the last read row instead of the last write row
IsLast_read(copy_event, step_idx) == step_idx = Len(copy_event.bytes) * 2 - 2
IsLast(copy_event, step_idx) == step_idx = Len(copy_event.bytes) * 2 - 1
\* counts the bytes after this step
BytesLeft_after(copy_event, step_idx) == Len(copy_event.bytes) - (step_idx \div 2) - 1
BytesLeft(copy_event, step_idx) == Len(copy_event.bytes) - (step_idx \div 2)
StepId(copy_event, is_read) == IF is_read THEN copy_event.src_id ELSE copy_event.dst_id
StepTag(copy_event, is_read) == IF is_read THEN copy_event.src_type ELSE copy_event.dst_type
\* advances the address on every row instead of every byte
CopyStepAddr_perrow(copy_event, step_idx, is_read) ==
  (IF is_read THEN copy_event.src_addr ELSE copy_event.dst_addr)
    + (step_idx - (IF is_read THEN 0 ELSE 1))
CopyStepAddr(copy_event, step_idx, is_read) ==
  (IF is_read THEN copy_event.src_addr ELSE copy_event.dst_addr)
    + ((step_idx - (IF is_read THEN 0 ELSE 1)) \div 2)
\* the branch that packs the TxLog address
PacksTxLog(copy_event, is_read) == is_read /\ copy_event.dst_type = "TxLog"
\* copy_event.log_id.unwrap() panics on None
\* takes a default log id instead of unwrapping
StepPanics_never(copy_event, step_idx) == FALSE
StepPanics(copy_event, step_idx) ==
  PacksTxLog(copy_event, IsRead(step_idx)) /\ ~copy_event.log_id.some
StepAddr(copy_event, is_read, copy_step_addr) ==
  IF PacksTxLog(copy_event, is_read)
  THEN TxLogAddr(copy_step_addr, copy_event.log_id.v)
  ELSE FromU64(copy_step_addr)
\* does not pad the read at src_addr_end itself
StepIsPad_strict(is_read, copy_step_addr, src_addr_end) ==
  is_read /\ copy_step_addr > src_addr_end
\* pads one address early
StepIsPad_early(is_read, copy_step_addr, src_addr_end) ==
  is_read /\ copy_step_addr + 1 >= src_addr_end
StepIsPad(is_read, copy_step_addr, src_addr_end) ==
  is_read /\ copy_step_addr >= src_addr_end

\* the counter schedule of the event: rw_counter advances by one after every
\* row whose tag is Memory or TxLog and that is not padded
RwDiffAt(copy_event, k) ==
  LET is_read == IsRead(k)
  IN IF StepTag(copy_event, is_read) \in {"Memory", "TxLog"}
        /\ ~StepIsPad(is_read, CopyStepAddr(copy_event, k, is_read), copy_event.src_addr_end)
     THEN 1 ELSE 0
RECURSIVE RwIncrease(_, _, _)
\* Sum of RwDiffAt over the steps from..to-1
RwIncrease(copy_event, from, to) ==
  IF from >= to THEN 0
  ELSE RwDiffAt(copy_event, from) + RwIncrease(copy_event, from + 1, to)
rw_counter(copy_event, step_idx) ==
  copy_event.rw_counter_start + RwIncrease(copy_event, 0, step_idx)
rw_counter_increase_left(copy_event, step_idx) ==
  RwIncrease(copy_event, step_idx, 2 * Len(copy_event.bytes))

\* LtChip::assign(lhs, rhs): the lt cell
LtAssign(lhs, rhs) == BoolToF(lhs < rhs)

\* the row assign_step writes
assign_step(randomness, copy_event, step_idx, copy_step, value, rlc_acc) ==
  LET is_read == IsRead(step_idx)
      copy_step_addr == CopyStepAddr(copy_event, step_idx, is_read)
  IN [q_enable |-> 1,
      q_step |-> BoolToF(is_read),
      is_first |-> BoolToF(IsFirst(step_idx)),
      is_last |-> BoolToF(IsLast(copy_event, step_idx)),
      id |-> number_or_hash_to_field(StepId(copy_event, is_read), randomness),
      addr |-> StepAddr(copy_event, is_read, copy_step_addr),
      value |-> value,
      rlc_acc |-> rlc_acc,
      is_code |-> IF copy_step.is_code.some THEN BoolToF(copy_step.is_code.v) ELSE 0,
      is_pad |-> BoolToF(StepIsPad(is_read, copy_step_addr, copy_event.src_addr_end)),
      rw_counter |-> rw_counter(copy_event, step_idx),
      rwc_inc_left |-> rw_counter_increase_left(copy_event, step_idx),
      tag |-> StepTag(copy_event, is_read),
      src_addr_end |-> IF is_read THEN copy_event.src_addr_end ELSE 0,
      bytes_left |-> IF is_read THEN BytesLeft(copy_event, step_idx) ELSE 0,
      lt |-> IF is_read THEN LtAssign(copy_step_addr, copy_event.src_addr_end) ELSE 0,
      assigned |-> IF is_read THEN StepColumns \cup ReadOnlyColumns ELSE StepColumns]

\* leaves the padding row enabled
assign_padding_row_enabled ==
  [q_enable |-> 1, q_step |-> 0, is_first |-> 0, is_last |-> 0, id |-> 0,
   addr |-> FromU64(0), value |-> 0, rlc_acc |-> 0, is_code |-> 0, is_pad |-> 0,
   rw_counter |-> 0, rwc_inc_left |-> 0, tag |-> DefaultTag,
   src_addr_end |-> 0, bytes_left |-> 0, lt |-> 0,
   assigned |-> PaddingColumns]
\* the row assign_padding_row writes
assign_padding_row ==
  [q_enable |-> 0, q_step |-> 0, is_first |-> 0, is_last |-> 0, id |-> 0,
   addr |-> FromU64(0), value |-> 0, rlc_acc |-> 0, is_code |-> 0, is_pad |-> 0,
   rw_counter |-> 0, rwc_inc_left |-> 0, tag |-> DefaultTag,
   src_addr_end |-> 0, bytes_left |-> 0, lt |-> 0,
   assigned |-> PaddingColumns]

\* for _ in 0..2
NumPaddingRows == 2
\* pads one row only
MorePadding_one(i) == i < NumPaddingRows - 1
MorePadding(i) == i < NumPaddingRows
\* rows kept before the running event: the furthest rotation of the gates
KeepRows == 2

\* ------------------------------------------------------------------- state
VARIABLES
  pc,           \* "events" | "steps" | "padding" | "done" | "panicked"
  randomness,   \* the challenge r
  n_events,     \* events the iterator has yielded
  copy_event,   \* the running event
  event_start,  \* offset at which the running event started
  step_idx,     \* enumerate() index of the inner loop
  offset,
  value_acc,
  rlc_acc,
  pad_idx,      \* iterations done of the padding loop
  region,       \* offset -> row
  n_assigned,   \* rows assigned so far
  total_bytes,  \* Sum of N over the events yielded
  honest        \* every event yielded so far is a well-formed witness

vars ==
  <<pc, randomness, n_events, copy_event, event_start, step_idx, offset,
    value_acc, rlc_acc, pad_idx, region, n_assigned, total_bytes, honest>>

\* a witness as the gates expect it
PaddedBytesAreZero(e) ==
  \A i \in 1..Len(e.bytes) : e.src_addr + (i - 1) >= e.src_addr_end => e.bytes[i][1] = 0
WellFormed(e) ==
  /\ e.src_type \in {"Memory", "Bytecode", "TxCalldata"}
  /\ e.dst_type \in {"Memory", "RlcAcc"}
  /\ Len(e.bytes) >= 1
  /\ PaddedBytesAreZero(e)

EmptyRegion == [o \in {} |-> assign_padding_row]
WriteRow(reg, off, row) == [o \in DOMAIN reg \cup {off} |-> IF o = off THEN row ELSE reg[o]]
KeepLast(reg, off) == [o \in {x \in DOMAIN reg : x >= off - KeepRows} |-> reg[o]]

Init ==
  /\ pc = "events"
  /\ randomness \in Randomness
  /\ n_events = 0
  /\ copy_event = NoEvent
  /\ event_start = 0
  /\ step_idx = 0
  /\ offset = 0
  /\ value_acc = 0
  /\ rlc_acc = 0
  /\ pad_idx = 0
  /\ region = EmptyRegion
  /\ n_assigned = 0
  /\ total_bytes = 0
  /\ honest = TRUE

\* keeps the value_acc the previous event ended with
StartEvent_carry(e) ==
  /\ copy_event' = e
  /\ rlc_acc' = EventRlcAcc(e, randomness)
  /\ total_bytes' = total_bytes + Len(e.bytes)
  /\ honest' = (honest /\ WellFormed(e))
  /\ value_acc' = value_acc
  /\ step_idx' = 0
  /\ event_start' = offset
  /\ n_events' = n_events + 1
  /\ pc' = "steps"
  /\ UNCHANGED <<randomness, offset, pad_idx, region, n_assigned>>
\* the locals of an iteration over the events: lines 394-404
StartEvent(e) ==
  /\ copy_event' = e
  /\ rlc_acc' = EventRlcAcc(e, randomness)
  /\ total_bytes' = total_bytes + Len(e.bytes)
  /\ honest' = (honest /\ WellFormed(e))
  /\ value_acc' = 0
  /\ step_idx' = 0
  /\ event_start' = offset
  /\ n_events' = n_events + 1
  /\ pc' = "steps"
  /\ UNCHANGED <<randomness, offset, pad_idx, region, n_assigned>>

\* block.copy_events.iter() yields an event: lines 393-404
NextEvent ==
  /\ pc = "events"
  /\ n_events < MaxEvents
  /\ \E e \in CopyEvents : StartEvent(e)

\* one iteration of the inner loop: lines 405-453
AssignStep ==
  /\ pc = "steps"
  /\ step_idx < NumSteps(copy_event)
  /\ ~StepPanics(copy_event, step_idx)
  /\ LET is_read_step == IsReadStep(step_idx)
         copy_step == CopyStep(copy_event, step_idx)
         value == StepValue(copy_event, is_read_step, copy_step, value_acc, randomness)
     IN /\ value_acc' = NextValueAcc(copy_event, is_read_step, copy_step, value_acc, randomness)
        /\ region' = WriteRow(region, offset,
                        assign_step(randomness, copy_event, step_idx, copy_step, value, rlc_acc))
  /\ offset' = NextOffset(offset)
  /\ step_idx' = step_idx + 1
  /\ n_assigned' = n_assigned + 1
  /\ UNCHANGED <<pc, randomness, n_events, copy_event, event_start, rlc_acc, pad_idx,
                 total_bytes, honest>>

\* copy_event.log_id.unwrap() on None inside assign_step: line 537
AssignStepPanic ==
  /\ pc = "steps"
  /\ step_idx < NumSteps(copy_event)
  /\ StepPanics(copy_event, step_idx)
  /\ pc' = "panicked"
  /\ UNCHANGED <<randomness, n_events, copy_event, event_start, step_idx, offset,
                 value_acc, rlc_acc, pad_idx, region, n_assigned, total_bytes, honest>>

\* the inner loop is exhausted; value_acc is only replaced by the next event's
\* `let mut value_acc = F::zero()` (line 404)
EndSteps ==
  /\ pc = "steps"
  /\ step_idx = NumSteps(copy_event)
  /\ pc' = "events"
  /\ copy_event' = NoEvent
  /\ step_idx' = 0
  /\ rlc_acc' = 0
  /\ region' = KeepLast(region, offset)
  /\ UNCHANGED <<randomness, n_events, event_start, offset, value_acc, pad_idx,
                 n_assigned, total_bytes, honest>>

\* the iterator is exhausted
EndEvents ==
  /\ pc = "events"
  /\ pc' = "padding"
  /\ pad_idx' = 0
  /\ UNCHANGED <<randomness, n_events, copy_event, event_start, step_idx, offset,
                 value_acc, rlc_acc, region, n_assigned, total_bytes, honest>>

\* one iteration of the padding loop: lines 456-459
AssignPaddingRow ==
  /\ pc = "padding"
  /\ MorePadding(pad_idx)
  /\ region' = WriteRow(region, offset, assign_padding_row)
  /\ offset' = NextOffset(offset)
  /\ pad_idx' = pad_idx + 1
  /\ n_assigned' = n_assigned + 1
  /\ UNCHANGED <<pc, randomness, n_events, copy_event, event_start, step_idx,
                 value_acc, rlc_acc, total_bytes, honest>>

\* Ok(())
Return ==
  /\ pc = "padding"
  /\ ~MorePadding(pad_idx)
  /\ pc' = "done"
  /\ UNCHANGED <<randomness, n_events, copy_event, event_start, step_idx, offset,
                 value_acc, rlc_acc, pad_idx, region, n_assigned, total_bytes, honest>>

Next ==
  \/ NextEvent
  \/ AssignStep
  \/ AssignStepPanic
  \/ EndSteps
  \/ EndEvents
  \/ AssignPaddingRow
  \/ Return

Spec == Init /\ [][Next]_vars


\* ---------------------------------------------------------------- the gates
\* A constraint under cb.condition(c, ..) is c * (lhs - rhs) = 0: in a field,
\* c = 0 or lhs = rhs.  Each operator takes the rows at Rotation::cur(),
\* Rotation::next() and Rotation(2).
TagEquals(row, t) == BoolToF(row.tag = t)
NotLastTwoRows(cur, next) == 1 - cur.is_last - next.is_last
RwDiff(cur) ==
  BoolToF(TagEquals(cur, "Memory") = 1 \/ TagEquals(cur, "TxLog") = 1) * (1 - cur.is_pad)

A_IsFirstBoolean(cur) == cur.is_first * (1 - cur.is_first) = 0
\* no constraint on is_last
A_IsLastBoolean_off(cur) == TRUE
A_IsLastBoolean(cur) == cur.is_last * (1 - cur.is_last) = 0
A_IsFirstOnlyOnStep(cur) == (1 - cur.q_step) * cur.is_first = 0
A_IsLastOnlyOffStep(cur) == cur.is_last * cur.q_step = 0
A_SameId(cur, next, rot2) == NotLastTwoRows(cur, next) # 0 => cur.id = rot2.id
\* the tag is not compared with the row two below
A_SameTag_off(cur, next, rot2) == TRUE
A_SameTag(cur, next, rot2) == NotLastTwoRows(cur, next) # 0 => cur.tag = rot2.tag
A_AddrInc(cur, next, rot2) == NotLastTwoRows(cur, next) # 0 => AddrPlusOne(cur.addr) = rot2.addr
A_SameSrcAddrEnd(cur, next, rot2) ==
  NotLastTwoRows(cur, next) # 0 => cur.src_addr_end = rot2.src_addr_end
A_RwCounter(cur, next) ==
  (1 - cur.is_last) # 0 => cur.rw_counter + RwDiff(cur) = next.rw_counter
A_RwcIncLeft(cur, next) ==
  (1 - cur.is_last) # 0 => cur.rwc_inc_left - RwDiff(cur) = next.rwc_inc_left
A_SameRlcAcc(cur, next) == (1 - cur.is_last) # 0 => cur.rlc_acc = next.rlc_acc
\* the last row does not pin the counter
A_RwcIncLeftLast_off(cur) == TRUE
A_RwcIncLeftLast(cur) == cur.is_last # 0 => cur.rwc_inc_left = RwDiff(cur)
A_ValueIsRlcAcc(cur) ==
  cur.is_last * TagEquals(cur, "RlcAcc") # 0 => cur.value = cur.rlc_acc

\* gate "verify row" is multiplied by q_enable
GateRowActive(cur) == cur.q_enable # 0

B_BytesLeftLast(cur, next) == next.is_last * (1 - cur.bytes_left) = 0
\* bytes_left stays the same from one read row to the next
B_BytesLeftDec_same(cur, next, rot2) ==
  (1 - next.is_last) # 0 => cur.bytes_left = rot2.bytes_left
B_BytesLeftDec(cur, next, rot2) ==
  (1 - next.is_last) # 0 => cur.bytes_left = rot2.bytes_left + 1
\* compares the two values on the first step of an event only
B_WriteIsRead_first(cur, next) == cur.is_first # 0 => cur.value = next.value
B_WriteIsRead(cur, next) ==
  (1 - TagEquals(next, "RlcAcc")) # 0 => cur.value = next.value
B_WriteIsReadFirst(cur, next) == cur.is_first # 0 => cur.value = next.value
B_PadValueZero(cur) == cur.is_pad * cur.value = 0
\* is_pad is not tied to the comparator on read rows
B_IsPad_off(cur) == TRUE
\* only asks is_pad to be 0 or 1
B_IsPad_bool(cur) == cur.is_pad * (1 - cur.is_pad) = 0
B_IsPad(cur) == 1 - cur.lt = cur.is_pad
\* is_pad is not constrained on write rows
B_WriteNotPad_off(next) == TRUE
B_WriteNotPad(next) == next.is_pad = 0

\* gate "verify step (q_step == 1)" is multiplied by q_step
GateStepActive(cur) == cur.q_step # 0

\* multiplies the new byte instead of the accumulated value
C_Rlc_swapped(cur, next, rot2, r) == rot2.value = cur.value + next.value * r
C_Rlc(cur, next, rot2, r) == rot2.value = cur.value * r + next.value

\* gate "verify_step (q_step == 0)"
GateRlcActive(cur) ==
  cur.q_enable * (1 - cur.q_step) * (1 - cur.is_last) * TagEquals(cur, "RlcAcc")
    * (1 - cur.is_pad) # 0


\* ---------------------------------------------------------------- lookups
\* Every input expression of a lookup is multiplied by its condition: a row
\* with a non-zero condition must be found in the table.
\* looks padded rows up as well
MemoryLookupCond_padded(row) == row.q_enable * TagEquals(row, "Memory")
MemoryLookupCond(row) == row.q_enable * TagEquals(row, "Memory") * (1 - row.is_pad)
TxLogLookupCond(row) == row.q_enable * TagEquals(row, "TxLog")
BytecodeLookupCond(row) == row.q_enable * TagEquals(row, "Bytecode") * (1 - row.is_pad)
TxCalldataLookupCond(row) == row.q_enable * TagEquals(row, "TxCalldata") * (1 - row.is_pad)
MemoryLookupInput(row) ==
  <<row.rw_counter, 1 - row.q_step, "Memory", row.id, row.addr, 0, 0, row.value, 0, 0, 0>>
TxLogLookupInput(row) ==
  <<row.rw_counter, 1, "TxLog", row.id, row.addr, 0, 0, row.value, 0, 0, 0>>
BytecodeLookupInput(row) == <<row.id, "Byte", row.addr, row.is_code, row.value>>
TxCalldataLookupInput(row) == <<row.id, "CallData", row.addr, row.value>>
\* the lookups a row takes part in, with the tuple it must find
Lookups(row) ==
  (IF MemoryLookupCond(row) # 0 THEN {<<"Memory lookup", MemoryLookupInput(row)>>} ELSE {})
    \cup (IF TxLogLookupCond(row) # 0 THEN {<<"TxLog lookup", TxLogLookupInput(row)>>} ELSE {})
    \cup (IF BytecodeLookupCond(row) # 0
          THEN {<<"Bytecode lookup", BytecodeLookupInput(row)>>} ELSE {})
    \cup (IF TxCalldataLookupCond(row) # 0
          THEN {<<"Tx calldata lookup", TxCalldataLookupInput(row)>>} ELSE {})


\* --------------------------------------------------------------- the claims
InRegion(o) == o \in DOMAIN region
\* offsets of the rows written so far for the running event
EventOffsets == event_start..(offset - 1)
Even(k) == k % 2 = 0

\* C1: every event of N bytes is written as exactly 2*N consecutive enabled
\* rows, and when assign_block returns the number of rows written, padding
\* included, is Sum(2*N_i) + 2.
Thm_C1 ==
  /\ pc = "events" => offset = 2 * total_bytes
  /\ pc = "steps" =>
       /\ event_start = 2 * (total_bytes - Len(copy_event.bytes))
       /\ offset - event_start = step_idx
       /\ step_idx <= 2 * Len(copy_event.bytes)
       /\ \A o \in EventOffsets : InRegion(o) /\ region[o].q_enable = 1
  /\ pc = "done" => n_assigned = 2 * total_bytes + 2 /\ offset = n_assigned
Wit_C1 == pc = "done" /\ n_events = 2 /\ total_bytes >= 3

\* C2: rows are written at the consecutive offsets 0, 1, 2, ..., none skipped
\* and none written twice, in (event, byte, read-then-write) order: row 2i of
\* an event is the read row of byte i (q_step enabled, source tag and id), row
\* 2i+1 its write row (q_step not enabled, destination tag and id).
Thm_C2 ==
  /\ offset = n_assigned
  /\ \A o \in DOMAIN region : o < offset /\ \A o2 \in o..(offset - 1) : InRegion(o2)
  /\ pc = "steps" =>
       LET src_id == number_or_hash_to_field(copy_event.src_id, randomness)
           dst_id == number_or_hash_to_field(copy_event.dst_id, randomness)
       IN \A k \in 0..(step_idx - 1) :
            /\ InRegion(event_start + k)
            /\ LET row == region[event_start + k]
                   byte == copy_event.bytes[(k \div 2) + 1][1]
               IN IF Even(k)
                  THEN /\ row.q_step = 1
                       /\ row.tag = copy_event.src_type
                       /\ row.id = src_id
                       /\ row.value = byte
                       /\ row.bytes_left = Len(copy_event.bytes) - (k \div 2)
                  ELSE /\ row.q_step = 0
                       /\ "q_step" \notin row.assigned
                       /\ row.tag = copy_event.dst_type
                       /\ row.id = dst_id
                       /\ (copy_event.dst_type # "RlcAcc" => row.value = byte)
Wit_C2 == pc = "steps" /\ step_idx = 4 /\ n_events = 2 /\ event_start = 4

\* C3: when assign_block returns, also for a block with no events or with
\* empty events only, the last two rows written are padding rows: q_enable = 0,
\* q_step not enabled, every advice column 0, the default tag; no gate is active
\* on them, and the row before them, if any, is an enabled row.
IsZeroRow(row) ==
  /\ row.q_enable = 0 /\ row.q_step = 0
  /\ row.is_first = 0 /\ row.is_last = 0 /\ row.id = 0 /\ row.addr = FromU64(0)
  /\ row.src_addr_end = 0 /\ row.bytes_left = 0 /\ row.value = 0 /\ row.rlc_acc = 0
  /\ row.is_code = 0 /\ row.is_pad = 0 /\ row.rw_counter = 0 /\ row.rwc_inc_left = 0
  /\ row.lt = 0
  /\ row.tag = DefaultTag
  /\ "q_step" \notin row.assigned
  /\ PaddingColumns \subseteq row.assigned
NoGateActive(row) == ~GateRowActive(row) /\ ~GateStepActive(row) /\ ~GateRlcActive(row)
Thm_C3 ==
  pc = "done" =>
    /\ offset = 2 * total_bytes + 2
    /\ \A o \in {offset - 2, offset - 1} :
         InRegion(o) /\ IsZeroRow(region[o]) /\ NoGateActive(region[o])
    /\ InRegion(offset - 3) => region[offset - 3].q_enable = 1
Wit_C3 == pc = "done" /\ n_events = 1 /\ total_bytes = 0

\* C4: in the table assign_block leaves, every row on which a gate is active
\* (q_enable = 1 or q_step = 1) has row+1 and row+2 among the written rows.
Thm_C4 ==
  pc = "done" =>
    \A o \in DOMAIN region :
      (region[o].q_enable = 1 \/ region[o].q_step = 1) =>
        InRegion(o + 1) /\ InRegion(o + 2)
Wit_C4 ==
  /\ pc = "done" /\ total_bytes >= 1
  /\ InRegion(offset - 3) /\ region[offset - 3].is_last = 1

\* C5: for blocks of well-formed events (source Memory, Bytecode or TxCalldata,
\* destination Memory or RlcAcc, N >= 1, zero bytes at and past src_addr_end)
\* every written row satisfies gate "verify row" on is_first, is_last, id, tag,
\* addr, src_addr_end, rlc_acc and value, gate "verify step (q_step == 1)" and
\* the recurrence of gate "verify_step (q_step == 0)", across event boundaries
\* and on the rows before the padding.
GateRowHolds(cur, next, rot2) ==
  GateRowActive(cur) =>
    /\ A_IsFirstBoolean(cur) /\ A_IsLastBoolean(cur)
    /\ A_IsFirstOnlyOnStep(cur) /\ A_IsLastOnlyOffStep(cur)
    /\ A_SameId(cur, next, rot2) /\ A_SameTag(cur, next, rot2)
    /\ A_AddrInc(cur, next, rot2) /\ A_SameSrcAddrEnd(cur, next, rot2)
    /\ A_SameRlcAcc(cur, next) /\ A_ValueIsRlcAcc(cur)
GateStepHolds(cur, next, rot2) ==
  GateStepActive(cur) =>
    /\ B_BytesLeftLast(cur, next) /\ B_BytesLeftDec(cur, next, rot2)
    /\ B_WriteIsRead(cur, next) /\ B_WriteIsReadFirst(cur, next)
    /\ B_PadValueZero(cur) /\ B_IsPad(cur) /\ B_WriteNotPad(next)
GateRlcHolds(cur, next, rot2, r) == GateRlcActive(cur) => C_Rlc(cur, next, rot2, r)
\* rows whose Rotation(2) window is written
Windows == {o \in DOMAIN region : InRegion(o + 1) /\ InRegion(o + 2)}
Thm_C5 ==
  honest =>
    \A o \in Windows :
      /\ GateRowHolds(region[o], region[o + 1], region[o + 2])
      /\ GateStepHolds(region[o], region[o + 1], region[o + 2])
      /\ GateRlcHolds(region[o], region[o + 1], region[o + 2], randomness)
Wit_C5 ==
  /\ pc = "done" /\ honest /\ n_events = 2 /\ total_bytes = 4
  /\ region[offset - 3].tag = "RlcAcc"


\* the written enabled rows
EnabledRows == {o \in DOMAIN region : region[o].q_enable = 1}
ByteValues(e) == [i \in 1..Len(e.bytes) |-> e.bytes[i][1]]
\* the running event has all its rows
EventComplete == pc = "steps" /\ step_idx = 2 * Len(copy_event.bytes)

\* C6 (as claimed): on every read row, for every source and destination type,
\* TxLog included, is_pad = 1 exactly when the addr column is >= src_addr_end,
\* and is_pad = 0 on every write row.
Cex_C6 ==
  \A o \in EnabledRows :
    LET row == region[o]
    IN IF row.q_step = 1
       THEN (row.is_pad = 1) <=> AddrGe(row.addr, row.src_addr_end)
       ELSE row.is_pad = 0

\* C7 (as claimed): on every read row of every event, is_pad = 1 implies
\* value = 0.
Cex_C7 ==
  \A o \in EnabledRows :
    (region[o].q_step = 1 /\ region[o].is_pad = 1) => region[o].value = 0

\* C7 (amended): on every read row of an event whose bytes are 0 at every
\* index i with src_addr + i >= src_addr_end, is_pad = 1 implies value = 0.
Thm_C7 ==
  (pc = "steps" /\ PaddedBytesAreZero(copy_event)) =>
    \A o \in EventOffsets :
      /\ InRegion(o)
      /\ (region[o].q_step = 1 /\ region[o].is_pad = 1) => region[o].value = 0
Wit_C7 ==
  /\ EventComplete /\ step_idx = 4 /\ PaddedBytesAreZero(copy_event)
  /\ region[event_start].value = 1 /\ region[event_start].is_pad = 0
  /\ region[event_start + 2].is_pad = 1

\* C8 (as claimed): for an event with destination TxLog the write row of byte
\* i holds the packed address (dst_addr + i) + (Data << 32) + (log_id << 48)
\* in addr, and its read row the plain address src_addr + i.
Cex_C8 ==
  (pc = "steps" /\ copy_event.dst_type = "TxLog") =>
    \A k \in 0..(step_idx - 1) :
      LET row == region[event_start + k]
      IN IF Even(k)
         THEN row.addr = FromU64(copy_event.src_addr + (k \div 2))
         ELSE row.addr = TxLogAddr(copy_event.dst_addr + (k \div 2), copy_event.log_id.v)

RECURSIVE fold_right(_, _)
\* fold_right(bytes, \b acc. acc*r + b, 0): the last byte is consumed first
fold_right(bytes, r) ==
  IF bytes = <<>> THEN 0 ELSE fold_right(Tail(bytes), r) * r + Head(bytes)
RECURSIVE fold_left(_, _, _)
\* fold_left(bytes, \acc b. acc*r + b, acc): the first byte is consumed first
fold_left(bytes, acc, r) ==
  IF bytes = <<>> THEN acc ELSE fold_left(Tail(bytes), acc * r + Head(bytes), r)

\* C9 (as claimed): for an event with destination RlcAcc and N >= 1 the value
\* on the last write row is fold_right(bytes, \b acc. acc*r + b, 0), the
\* accumulation that consumes the bytes from the last to the first.
Cex_C9 ==
  (EventComplete /\ copy_event.dst_type = "RlcAcc" /\ Len(copy_event.bytes) >= 1) =>
    region[offset - 1].value = fold_right(ByteValues(copy_event), randomness)

\* C9 (amended): for an event with destination RlcAcc and N >= 1 the value on
\* the last write row is fold_left(bytes, \acc b. acc*r + b, 0), the
\* accumulation that consumes the bytes from the first to the last.
Thm_C9 ==
  (EventComplete /\ copy_event.dst_type = "RlcAcc" /\ Len(copy_event.bytes) >= 1) =>
    /\ region[offset - 1].q_step = 0
    /\ region[offset - 1].value = fold_left(ByteValues(copy_event), 0, randomness)
Wit_C9 ==
  /\ EventComplete /\ copy_event.dst_type = "RlcAcc" /\ Len(copy_event.bytes) = 2
  /\ copy_event.bytes[1][1] # copy_event.bytes[2][1]

\* C10: for an event with destination RlcAcc and N >= 1 the last row of the
\* event has is_last = 1 and its value equals its rlc_acc column, which holds
\* the rlc_acc computed for the event before the step loop.
Thm_C10 ==
  /\ \A o \in EnabledRows :
       (region[o].is_last = 1 /\ region[o].tag = "RlcAcc") =>
         region[o].value = region[o].rlc_acc
  /\ (EventComplete /\ copy_event.dst_type = "RlcAcc" /\ Len(copy_event.bytes) >= 1) =>
       /\ region[offset - 1].is_last = 1
       /\ region[offset - 1].tag = "RlcAcc"
       /\ region[offset - 1].rlc_acc = rlc_acc
       /\ region[offset - 1].value = value_acc
Wit_C10 ==
  /\ EventComplete /\ copy_event.dst_type = "RlcAcc" /\ Len(copy_event.bytes) = 2
  /\ region[offset - 1].is_last = 1 /\ region[offset - 1].value = 4


\* C11: the rlc_acc column has one value on all rows of an event, the rlc_acc
\* computed for the event, and that value is 0 when the destination is not
\* RlcAcc.
Thm_C11 ==
  pc = "steps" =>
    \A o \in EventOffsets :
      /\ InRegion(o)
      /\ region[o].rlc_acc = region[event_start].rlc_acc
      /\ region[o].rlc_acc = rlc_acc
      /\ copy_event.dst_type # "RlcAcc" => region[o].rlc_acc = 0
Wit_C11 ==
  /\ EventComplete /\ step_idx = 4 /\ copy_event.dst_type = "RlcAcc"
  /\ region[event_start].rlc_acc = 3 /\ region[offset - 1].rlc_acc = 3

\* C12: for an event with N >= 1, is_first = 1 on row 0 of the event only, a
\* read row with q_step = 1, and is_last = 1 on row 2N-1 only, a write row with
\* q_step = 0; an event with N = 1 is two rows, is_first on the first and
\* is_last on the second.
Thm_C12 ==
  pc = "steps" =>
    \A k \in 0..(step_idx - 1) :
      LET row == region[event_start + k]
      IN /\ row.is_first = BoolToF(k = 0)
         /\ row.is_last = BoolToF(k = 2 * Len(copy_event.bytes) - 1)
         /\ row.is_first = 1 => row.q_step = 1
         /\ row.is_last = 1 => row.q_step = 0
Wit_C12 ==
  /\ EventComplete /\ Len(copy_event.bytes) = 1 /\ offset - event_start = 2
  /\ region[event_start].is_first = 1 /\ region[event_start + 1].is_last = 1

\* C13: when an event follows another, 1 - is_last[cur] - is_last[next] is 0
\* on every row of the earlier event whose Rotation(2) row belongs to the later
\* event, so the id, tag, addr and src_addr_end constraints of gate "verify
\* row" hold across the boundary whatever the two events are.
CrossesBoundary(o) == o < event_start /\ o + 2 >= event_start
Thm_C13 ==
  (pc = "steps" /\ step_idx >= 2) =>
    \A o \in DOMAIN region :
      CrossesBoundary(o) =>
        /\ NotLastTwoRows(region[o], region[o + 1]) = 0
        /\ A_SameId(region[o], region[o + 1], region[o + 2])
        /\ A_SameTag(region[o], region[o + 1], region[o + 2])
        /\ A_AddrInc(region[o], region[o + 1], region[o + 2])
        /\ A_SameSrcAddrEnd(region[o], region[o + 1], region[o + 2])
Wit_C13 ==
  /\ pc = "steps" /\ step_idx = 2 /\ event_start >= 2
  /\ InRegion(event_start - 2)
  /\ region[event_start - 2].tag # region[event_start].tag
  /\ region[event_start - 2].id # region[event_start].id
  /\ region[event_start - 2].src_addr_end # region[event_start].src_addr_end

\* C14: for an event whose destination is not TxLog, the read row of byte i
\* holds addr = src_addr + i and its write row addr = dst_addr + i, so addr
\* grows by exactly 1 between rows two apart within the event.
Thm_C14 ==
  (pc = "steps" /\ copy_event.dst_type # "TxLog") =>
    \A k \in 0..(step_idx - 1) :
      LET row == region[event_start + k]
      IN /\ row.addr = FromU64((IF Even(k) THEN copy_event.src_addr ELSE copy_event.dst_addr)
                                 + (k \div 2))
         /\ k >= 2 => row.addr = AddrPlusOne(region[event_start + k - 2].addr)
Wit_C14 ==
  /\ EventComplete /\ step_idx = 4 /\ copy_event.dst_type = "RlcAcc"
  /\ region[event_start + 2].addr = FromU64(2) /\ region[event_start + 3].addr = FromU64(6)

\* C15: for an event with src_addr_end <= src_addr and N >= 1, every read row
\* has is_pad = 1 and every write row is_pad = 0.
Thm_C15 ==
  (pc = "steps" /\ copy_event.src_addr_end <= copy_event.src_addr) =>
    \A k \in 0..(step_idx - 1) :
      region[event_start + k].is_pad = BoolToF(Even(k))
Wit_C15 ==
  /\ EventComplete /\ step_idx = 4 /\ copy_event.src_addr_end = copy_event.src_addr
  /\ region[event_start].is_pad = 1 /\ region[event_start + 2].is_pad = 1


\* a TxLog event with bytes and no log id
MissingLogId(e) == e.dst_type = "TxLog" /\ Len(e.bytes) >= 1 /\ ~e.log_id.some

\* C19 (as claimed): assign_block on a block with a TxLog event, N >= 1 and
\* log_id absent ends by returning the assignment error to its caller: the
\* call does not abort by a panic.
Cex_C19 == (pc \in {"steps", "panicked"} /\ MissingLogId(copy_event)) => pc # "panicked"

\* C19 (amended): assign_block on such a block does not return: once the
\* event is reached, assign_step panics at log_id.unwrap() no later than the
\* event's second step, so the event never gets past its first row and
\* assign_block gives neither Ok nor Err.
Thm_C19 ==
  [][(pc = "steps" /\ MissingLogId(copy_event)) =>
       \/ pc' = "panicked"
       \/ pc' = "steps" /\ copy_event' = copy_event /\ step_idx' <= 1]_vars
Wit_C19 ==
  /\ pc = "panicked" /\ MissingLogId(copy_event) /\ n_events = 2
  /\ Len(copy_event.bytes) = 2 /\ step_idx <= 1


\* all constraints of gate "verify row"
VerifyRow(cur, next, rot2) ==
  /\ GateRowHolds(cur, next, rot2)
  /\ GateRowActive(cur) =>
       A_RwCounter(cur, next) /\ A_RwcIncLeft(cur, next) /\ A_RwcIncLeftLast(cur)
\* the three gates on the window of rows o, o+1, o+2 of a table
GatesHoldAt(rows, o, r) ==
  /\ VerifyRow(rows[o], rows[o + 1], rows[o + 2])
  /\ GateStepHolds(rows[o], rows[o + 1], rows[o + 2])
  /\ GateRlcHolds(rows[o], rows[o + 1], rows[o + 2], r)
\* rows of the running event whose Rotation(2) window lies in the event
EventWindows == {o \in EventOffsets : o + 2 <= offset - 1}
TamperTag(rows, o, t) == [rows EXCEPT ![o].tag = t]

\* C20: the rows of a well-formed TxCalldata-to-Memory event with N >= 2
\* satisfy the gates, and after the tag of any one read row is changed to
\* Bytecode either a gate fails on some window of the event or the row takes
\* part in other lookups than before.
TxCalldataToMemory(e) ==
  e.src_type = "TxCalldata" /\ e.dst_type = "Memory" /\ Len(e.bytes) >= 2 /\ WellFormed(e)
Thm_C20 ==
  (EventComplete /\ TxCalldataToMemory(copy_event)) =>
    /\ \A o \in EventWindows : GatesHoldAt(region, o, randomness)
    /\ \A k \in EventOffsets :
         region[k].q_step = 1 =>
           LET tampered == TamperTag(region, k, "Bytecode")
           IN \/ \E o \in EventWindows : ~GatesHoldAt(tampered, o, randomness)
              \/ Lookups(tampered[k]) # Lookups(region[k])
\* the second read row is padded: it takes part in no lookup, before or after
Wit_C20 ==
  /\ EventComplete /\ TxCalldataToMemory(copy_event) /\ step_idx = 4
  /\ region[event_start + 2].is_pad = 1
  /\ Lookups(region[event_start + 2]) = {}
  /\ Lookups(TamperTag(region, event_start + 2, "Bytecode")[event_start + 2]) = {}
  /\ Lookups(region[event_start]) # {}



\* ------------------------------------------------ tables chosen by a prover
\* A prover fills the advice columns of the enabled rows one row at a time;
\* the fixed columns are laid out as assign_block lays them out: q_enable = 1
\* and q_step = 1 on every other row, starting with a read row.  A row is kept
\* only if the configured constraints hold on every window it completes.
\*
\* A table carries a set of advice columns, cols.  The other columns are held
\* at 0 and the constraints reading them are not imposed: every table that
\* satisfies the whole gates, restricted to cols, is among the tables built.
MaxTableRows == 4

GateA == "verify row"
GateB == "verify step (q_step == 1)"
GateC == "verify_step (q_step == 0)"
\* the LtChip configured on q_step: lt is boolean
LtGate == "addr_lt_addr_end"
Lt_IsBoolean(cur) == cur.lt * (1 - cur.lt) = 0

ConstraintsOf(gate) ==
  CASE gate = GateA ->
         {"is_first is boolean", "is_last is boolean",
          "is_first == 0 when q_step == 0", "is_last == 0 when q_step == 1",
          "rows[0].id == rows[2].id", "rows[0].tag == rows[2].tag",
          "rows[0].addr + 1 == rows[2].addr",
          "rows[0].src_addr_end == rows[2].src_addr_end for non-last step",
          "rows[0].rw_counter + rw_diff == rows[1].rw_counter",
          "rows[0].rwc_inc_left - rw_diff == rows[1].rwc_inc_left",
          "rows[0].rlc_acc == rows[1].rlc_acc",
          "rwc_inc_left == rw_diff for last row in the copy slot",
          "value == rlc_acc at the last row for RlcAcc"}
    [] gate = GateB ->
         {"bytes_left == 1 for last step",
          "bytes_left == bytes_left_next + 1 for non-last step",
          "write value == read value (if not rlc acc)",
          "write value == read value (is_first == 1)",
          "value == 0 when is_pad == 1 for read",
          "is_pad == 1 - (src_addr < src_addr_end) for read row",
          "is_pad == 0 for write row"}
    [] gate = GateC -> {"rows[2].value == rows[0].value * r + rows[1].value"}
    [] gate = LtGate -> {"lt is boolean"}
GateOf(c) == CHOOSE gate \in {GateA, GateB, GateC, LtGate} : c \in ConstraintsOf(gate)


\* the constraint on the rows at Rotation::cur(), Rotation::next(), Rotation(2)
Holds(c, cur, next, rot2, r) ==
  CASE c = "is_first is boolean" -> A_IsFirstBoolean(cur)
    [] c = "is_last is boolean" -> A_IsLastBoolean(cur)
    [] c = "is_first == 0 when q_step == 0" -> A_IsFirstOnlyOnStep(cur)
    [] c = "is_last == 0 when q_step == 1" -> A_IsLastOnlyOffStep(cur)
    [] c = "rows[0].id == rows[2].id" -> A_SameId(cur, next, rot2)
    [] c = "rows[0].tag == rows[2].tag" -> A_SameTag(cur, next, rot2)
    [] c = "rows[0].addr + 1 == rows[2].addr" -> A_AddrInc(cur, next, rot2)
    [] c = "rows[0].src_addr_end == rows[2].src_addr_end for non-last step" ->
         A_SameSrcAddrEnd(cur, next, rot2)
    [] c = "rows[0].rw_counter + rw_diff == rows[1].rw_counter" -> A_RwCounter(cur, next)
    [] c = "rows[0].rwc_inc_left - rw_diff == rows[1].rwc_inc_left" -> A_RwcIncLeft(cur, next)
    [] c = "rows[0].rlc_acc == rows[1].rlc_acc" -> A_SameRlcAcc(cur, next)
    [] c = "rwc_inc_left == rw_diff for last row in the copy slot" -> A_RwcIncLeftLast(cur)
    [] c = "value == rlc_acc at the last row for RlcAcc" -> A_ValueIsRlcAcc(cur)
    [] c = "bytes_left == 1 for last step" -> B_BytesLeftLast(cur, next)
    [] c = "bytes_left == bytes_left_next + 1 for non-last step" ->
         B_BytesLeftDec(cur, next, rot2)
    [] c = "write value == read value (if not rlc acc)" -> B_WriteIsRead(cur, next)
    [] c = "write value == read value (is_first == 1)" -> B_WriteIsReadFirst(cur, next)
    [] c = "value == 0 when is_pad == 1 for read" -> B_PadValueZero(cur)
    [] c = "is_pad == 1 - (src_addr < src_addr_end) for read row" -> B_IsPad(cur)
    [] c = "is_pad == 0 for write row" -> B_WriteNotPad(next)
    [] c = "rows[2].value == rows[0].value * r + rows[1].value" ->
         GateRlcHolds(cur, next, rot2, r)
    [] c = "lt is boolean" -> Lt_IsBoolean(cur)

\* the advice columns a constraint queries, its conditions included
Reads(c) ==
  CASE c \in {"is_first is boolean", "is_first == 0 when q_step == 0"} -> {"is_first"}
    [] c \in {"is_last is boolean", "is_last == 0 when q_step == 1"} -> {"is_last"}
    [] c = "rows[0].id == rows[2].id" -> {"is_last", "id"}
    [] c = "rows[0].tag == rows[2].tag" -> {"is_last", "tag"}
    [] c = "rows[0].addr + 1 == rows[2].addr" -> {"is_last", "addr"}
    [] c = "rows[0].src_addr_end == rows[2].src_addr_end for non-last step" ->
         {"is_last", "src_addr_end"}
    [] c = "rows[0].rw_counter + rw_diff == rows[1].rw_counter" ->
         {"is_last", "tag", "is_pad", "rw_counter"}
    [] c \in {"rows[0].rwc_inc_left - rw_diff == rows[1].rwc_inc_left",
              "rwc_inc_left == rw_diff for last row in the copy slot"} ->
         {"is_last", "tag", "is_pad", "rwc_inc_left"}
    [] c = "rows[0].rlc_acc == rows[1].rlc_acc" -> {"is_last", "rlc_acc"}
    [] c = "value == rlc_acc at the last row for RlcAcc" ->
         {"is_last", "tag", "value", "rlc_acc"}
    [] c \in {"bytes_left == 1 for last step",
              "bytes_left == bytes_left_next + 1 for non-last step"} ->
         {"is_last", "bytes_left"}
    [] c = "write value == read value (if not rlc acc)" -> {"tag", "value"}
    [] c = "write value == read value (is_first == 1)" -> {"is_first", "value"}
    [] c = "value == 0 when is_pad == 1 for read" -> {"is_pad", "value"}
    [] c = "is_pad == 1 - (src_addr < src_addr_end) for read row" -> {"is_pad", "lt"}
    [] c = "is_pad == 0 for write row" -> {"is_pad"}
    [] c = "rows[2].value == rows[0].value * r + rows[1].value" ->
         {"is_last", "tag", "is_pad", "value"}
    [] c = "lt is boolean" -> {"lt"}

\* the furthest rotation a constraint queries
Span(c) ==
  CASE c \in {"rows[0].id == rows[2].id", "rows[0].tag == rows[2].tag",
              "rows[0].addr + 1 == rows[2].addr",
              "rows[0].src_addr_end == rows[2].src_addr_end for non-last step",
              "bytes_left == bytes_left_next + 1 for non-last step",
              "rows[2].value == rows[0].value * r + rows[1].value"} -> 2
    [] c \in {"rows[0].rw_counter + rw_diff == rows[1].rw_counter",
              "rows[0].rwc_inc_left - rw_diff == rows[1].rwc_inc_left",
              "rows[0].rlc_acc == rows[1].rlc_acc",
              "bytes_left == 1 for last step",
              "write value == read value (if not rlc acc)",
              "write value == read value (is_first == 1)",
              "is_pad == 0 for write row"} -> 1
    [] OTHER -> 0

\* the selector a gate is multiplied by; gate "verify_step (q_step == 0)"
\* carries its selector in its one constraint
GateActive(gate, cur) ==
  CASE gate = GateA -> GateRowActive(cur)
    [] gate = GateB -> GateStepActive(cur)
    [] gate = GateC -> TRUE
    [] gate = LtGate -> GateStepActive(cur)

\* the constraints of the gates that query columns of the table only, each
\* with its gate and its span
Enforced(gates, cols) ==
  {<<GateOf(c), c, Span(c)>> :
     c \in {x \in UNION {ConstraintsOf(gate) : gate \in gates} : Reads(x) \subseteq cols}}


\* the values a prover may put in a cell: field elements around the ones the
\* constraints single out
TableTags == {"Memory", "TxLog", "RlcAcc"}
\* the largest randomness: two bytes in {0, 1} accumulate to MaxRlc + 1 at most
MaxRlc == CHOOSE m \in Randomness : \A r \in Randomness : r <= m
TableDomain(col) ==
  CASE col = "tag" -> TableTags
    [] col \in {"is_first", "is_last", "is_pad", "lt"} -> {0, 1, 2}
    [] col = "rwc_inc_left" -> (-1)..MaxTableRows
    [] col = "addr" -> {FromU64(a) : a \in 0..MaxTableRows}
    [] col \in {"value", "rlc_acc"} -> 0..(MaxRlc + 1)
    [] OTHER -> 0..MaxTableRows
\* the cell of a column the table does not carry
Unused(col) ==
  CASE col = "tag" -> {DefaultTag}
    [] col = "addr" -> {FromU64(0)}
    [] OTHER -> {0}
Cells(col, cols) == IF col \in cols THEN TableDomain(col) ELSE Unused(col)

\* the rows a prover can put at a place with the given fixed cells
CandidateRows(cols, q_enable, q_step) ==
  {[q_enable |-> q_enable, q_step |-> q_step, is_first |-> is_first, is_last |-> is_last,
    id |-> id, addr |-> addr, value |-> value, rlc_acc |-> acc, is_code |-> is_code,
    is_pad |-> is_pad, rw_counter |-> rwc, rwc_inc_left |-> inc_left, tag |-> tag,
    src_addr_end |-> src_addr_end, bytes_left |-> bytes_left, lt |-> lt,
    assigned |-> Columns] :
     is_first \in Cells("is_first", cols), is_last \in Cells("is_last", cols),
     id \in Cells("id", cols), addr \in Cells("addr", cols),
     value \in Cells("value", cols), acc \in Cells("rlc_acc", cols),
     is_code \in Cells("is_code", cols), is_pad \in Cells("is_pad", cols),
     rwc \in Cells("rw_counter", cols), inc_left \in Cells("rwc_inc_left", cols),
     tag \in Cells("tag", cols), src_addr_end \in Cells("src_addr_end", cols),
     bytes_left \in Cells("bytes_left", cols), lt \in Cells("lt", cols)}
\* The columns some constraint queries at Rotation::next() or Rotation(2):
\* the only cells of a row past the enabled ones that a gate can see.
AheadColumns ==
  {"is_last", "id", "tag", "addr", "src_addr_end", "bytes_left", "value", "rlc_acc",
   "is_pad", "rw_counter", "rwc_inc_left"}
\* the constraints of a row on its own cells
HoldsAlone(enforced, row) ==
  \A c \in enforced : (c[3] = 0 /\ GateActive(c[1], row)) => Holds(c[2], row, row, row, 0)
\* The rows that can stand at a place, by q_enable and q_step: the enabled
\* ones satisfy their own constraints, the others are free.
TableRows(enforced, cols) ==
  [q_enable \in {0, 1} |->
     [q_step \in {0, 1} |->
        IF q_enable = 1
        THEN {row \in CandidateRows(cols, 1, q_step) : HoldsAlone(enforced, row)}
        ELSE CandidateRows(cols \cap AheadColumns, 0, 0)]]

Min(a, b) == IF a <= b THEN a ELSE b
\* every enforced constraint holds on the window that row n completes
Accepts(enforced, rows, n, r) ==
  \A c \in enforced :
    LET o == n - c[3]
    IN o \in DOMAIN rows =>
         (GateActive(c[1], rows[o]) =>
            Holds(c[2], rows[o], rows[Min(o + 1, n)], rows[Min(o + 2, n)], r))

TableInit ==
  /\ pc = "table"
  /\ randomness \in Randomness
  /\ n_events = 0
  /\ copy_event = NoEvent
  /\ event_start = 0
  /\ step_idx = 0
  /\ offset = 0
  /\ value_acc = 0
  /\ rlc_acc = 0
  /\ pad_idx = 0
  /\ region = EmptyRegion
  /\ n_assigned = 0
  /\ total_bytes = 0
  /\ honest = FALSE

\* The prover adds the enabled row at offset.  event_start is the first row
\* after the last row with is_last = 1; the rows before it are dropped once
\* no window reaches them.
ChooseRow(enforced, table_rows) ==
  /\ pc = "table"
  /\ offset < MaxTableRows
  /\ \E row \in table_rows[1][BoolToF(Even(offset))] :
       LET rows == WriteRow(region, offset, row)
           start == IF offset >= 1 /\ region[offset - 1].is_last = 1
                    THEN offset ELSE event_start
       IN /\ Accepts(enforced, rows, offset, randomness)
          /\ event_start' = start
          /\ region' = [o \in {x \in DOMAIN rows : x >= Min(start, offset - 1)} |-> rows[o]]
  /\ offset' = offset + 1
  /\ UNCHANGED <<pc, randomness, n_events, copy_event, step_idx, value_acc, rlc_acc,
                 pad_idx, n_assigned, total_bytes, honest>>

\* tables under gate "verify row": the flags, the tag and rwc_inc_left
RowTableCols == {"tag", "is_first", "is_last", "is_pad", "rwc_inc_left"}
RowTableEnforced == Enforced({GateA}, RowTableCols)
RowTableRows == TableRows(RowTableEnforced, RowTableCols)
RowTableNext == ChooseRow(RowTableEnforced, RowTableRows)
RowTable == TableInit /\ [][RowTableNext]_vars

\* tables under gates "verify row" and "verify step (q_step == 1)" and the
\* comparator: the flags, the tag, lt and rw_counter
StepTableCols == {"tag", "is_first", "is_last", "is_pad", "lt", "rw_counter"}
StepTableEnforced == Enforced({GateA, GateB, LtGate}, StepTableCols)
StepTableRows == TableRows(StepTableEnforced, StepTableCols)
StepTableNext == ChooseRow(StepTableEnforced, StepTableRows)
StepTable == TableInit /\ [][StepTableNext]_vars

\* the constraints that query a row below their own
Ahead(enforced) == {c \in enforced : c[3] >= 1}
StepTableAhead == Ahead(StepTableEnforced)
\* The rows that can stand below row o: the next row of the table or, when o
\* is the last enabled row, any row the constraints of the enabled rows admit.
RowsAfter(ahead, table_rows, o) ==
  IF o + 1 \in DOMAIN region THEN {region[o + 1]}
  ELSE {nx \in table_rows[0][0] :
          Accepts(ahead, WriteRow(region, o + 1, nx), o + 1, randomness)}

\* C16: in a table that satisfies gates "verify row" and "verify step
\* (q_step == 1)", on every enabled row with is_last = 0 the rw_counter of the
\* next row exceeds the row's own by 0 or 1, and by 1 exactly when the row's
\* tag is Memory or TxLog and its is_pad is 0.
Thm_C16 ==
  pc = "table" =>
    \A o \in DOMAIN region :
      (region[o].q_enable = 1 /\ region[o].is_last = 0) =>
        \A nx \in RowsAfter(StepTableAhead, StepTableRows, o) :
          LET d == nx.rw_counter - region[o].rw_counter
          IN /\ d \in {0, 1}
             /\ d = 1 <=> (region[o].tag \in {"Memory", "TxLog"} /\ region[o].is_pad = 0)
\* a padded TxLog read row (no increase), a Memory write row (increase)
Wit_C16 ==
  /\ pc = "table" /\ offset = 3 /\ 0 \in DOMAIN region
  /\ region[0].tag = "TxLog" /\ region[0].is_pad = 1
  /\ region[1].rw_counter = region[0].rw_counter
  /\ region[1].tag = "Memory" /\ region[1].is_last = 0
  /\ region[2].rw_counter = region[1].rw_counter + 1

\* C17: in a table that satisfies gate "verify row", for every row f and the
\* first row l at or after it with is_last = 1, rwc_inc_left[f] is the sum of
\* rw_diff over the rows f..l, and rwc_inc_left[l] - rw_diff[l] = 0.
RECURSIVE SumRwDiff(_, _, _)
SumRwDiff(rows, f, l) == IF f > l THEN 0 ELSE RwDiff(rows[f]) + SumRwDiff(rows, f + 1, l)
Thm_C17 ==
  pc = "table" =>
    \A f \in DOMAIN region : \A l \in DOMAIN region :
      (/\ f <= l
       /\ region[l].is_last = 1
       /\ \A o \in f..(l - 1) : region[o].is_last = 0) =>
        /\ region[f].rwc_inc_left = SumRwDiff(region, f, l)
        /\ region[l].rwc_inc_left - RwDiff(region[l]) = 0
\* a run of four rows with two increases, one of them on the last row
Wit_C17 ==
  /\ pc = "table" /\ offset = 4 /\ event_start = 0
  /\ region[3].is_last = 1 /\ region[0].rwc_inc_left = 2
  /\ RwDiff(region[0]) = 0 /\ RwDiff(region[1]) = 1
  /\ RwDiff(region[2]) = 0 /\ RwDiff(region[3]) = 1

\* C18: in a table that satisfies the gates, is_first, is_last and is_pad are
\* 0 or 1 on every enabled row.
Thm_C18 ==
  pc = "table" =>
    \A o \in DOMAIN region :
      region[o].q_enable = 1 =>
        /\ region[o].is_first \in {0, 1}
        /\ region[o].is_last \in {0, 1}
        /\ region[o].is_pad \in {0, 1}
Wit_C18 ==
  /\ pc = "table" /\ offset = 2 /\ event_start = 0
  /\ region[0].is_first = 1 /\ region[0].is_pad = 1 /\ region[0].lt = 0
  /\ region[1].is_last = 1 /\ region[1].is_pad = 0


TamperValue(rows, o, v) == [rows EXCEPT ![o].value = v]
TamperedValues == 0..3
\* C21: on the rows of a finished event whose dst_type is not RlcAcc the
\* constraint "write value == read value (if not rlc acc)" holds on every read
\* row, and after the value of any one write row is changed to another value
\* the constraint fails on the read row paired with it.
Thm_C21 ==
  (EventComplete /\ copy_event.dst_type # "RlcAcc") =>
    \A k \in EventOffsets :
      region[k].q_step = 0 =>
        /\ B_WriteIsRead(region[k - 1], region[k])
        /\ \A v \in TamperedValues \ {region[k].value} :
             LET tampered == TamperValue(region, k, v)
             IN ~B_WriteIsRead(tampered[k - 1], tampered[k])
\* a Bytecode-to-Memory event of two bytes, the second one not padded
Wit_C21 ==
  /\ EventComplete
  /\ copy_event.src_type = "Bytecode" /\ copy_event.dst_type = "Memory"
  /\ Len(copy_event.bytes) = 2
  /\ region[offset - 1].value = 1 /\ region[offset - 2].is_pad = 0

\* C23: among the rows assign_step has written for the running event, read
\* row 2i has src_addr_end and bytes_left assigned, with bytes_left = N - i and
\* src_addr_end the event's, and on write rows neither column is assigned.
Thm_C23 ==
  pc = "steps" =>
    \A k \in EventOffsets :
      LET i == k - event_start
      IN IF Even(i)
         THEN /\ {"src_addr_end", "bytes_left"} \subseteq region[k].assigned
              /\ region[k].bytes_left = Len(copy_event.bytes) - (i \div 2)
              /\ region[k].src_addr_end = copy_event.src_addr_end
         ELSE {"src_addr_end", "bytes_left"} \cap region[k].assigned = {}
\* a finished event of two bytes: bytes_left is N, then 1
Wit_C23 ==
  /\ EventComplete
  /\ Len(copy_event.bytes) = 2
  /\ region[event_start].bytes_left = 2
  /\ region[offset - 2].bytes_left = 1
  /\ "bytes_left" \notin region[offset - 1].assigned

\* value_acc before step i of an event, started from 0
RECURSIVE ValueAccBefore(_, _, _)
ValueAccBefore(e, r, i) ==
  IF i = 0
  THEN 0
  ELSE NextValueAcc(e, IsReadStep(i - 1), CopyStep(e, i - 1), ValueAccBefore(e, r, i - 1), r)
\* the row step i of an event writes
EventRow(e, r, i) ==
  LET copy_step == CopyStep(e, i)
      value == StepValue(e, IsReadStep(i), copy_step, ValueAccBefore(e, r, i), r)
  IN assign_step(r, e, i, copy_step, value, EventRlcAcc(e, r))
\* C28: every step of an event writes, at offset event_start + step_idx, the
\* row computed from the event, the randomness and the step's index alone,
\* with the accumulator started from 0 at the event's first step, and leaves
\* the rows written before as they are: the rows of an event are the same, at
\* shifted offsets, after every prefix of other events.
Thm_C28 ==
  [][/\ (pc = "events" /\ pc' = "steps") => value_acc' = 0
     /\ (pc = "steps" /\ pc' = "steps") =>
          /\ copy_event' = copy_event /\ event_start' = event_start
          /\ offset = event_start + step_idx
          /\ value_acc' = ValueAccBefore(copy_event, randomness, step_idx')
          /\ region'[offset] = EventRow(copy_event, randomness, step_idx)
          /\ \A k \in DOMAIN region : region'[k] = region[k]]_vars
\* a finished RlcAcc event that follows an event which ended with a nonzero
\* accumulator
Wit_C28 ==
  /\ EventComplete
  /\ event_start > 0
  /\ copy_event.dst_type = "RlcAcc" /\ Len(copy_event.bytes) = 2
  /\ region[event_start - 1].tag = "RlcAcc" /\ region[event_start - 1].value # 0
  /\ region[offset - 1].value # 0

\* C24 as stated: in a table that satisfies gate "verify row" alone, is_first,
\* is_last and is_pad are 0 or 1 on every enabled row.
Cex_C24 ==
  pc = "table" =>
    \A o \in EnabledRows :
      /\ region[o].is_first \in {0, 1}
      /\ region[o].is_last \in {0, 1}
      /\ region[o].is_pad \in {0, 1}
\* C24: in a table that satisfies gate "verify row" alone, is_first and
\* is_last are 0 or 1 on every enabled row (is_pad is not constrained to be).
Thm_C24 ==
  pc = "table" =>
    \A o \in EnabledRows :
      /\ region[o].is_first \in {0, 1}
      /\ region[o].is_last \in {0, 1}
\* an accepted event of one byte whose read row carries is_pad = 2
Wit_C24 ==
  /\ pc = "table" /\ offset = 2
  /\ region[0].is_first = 1 /\ region[0].is_pad = 2 /\ region[0].tag = "Memory"
  /\ region[1].is_last = 1 /\ region[1].is_pad = 0

\* the row takes part in a lookup into the RW table
RwLookupActive(row) == MemoryLookupCond(row) # 0 \/ TxLogLookupCond(row) # 0
PaddedTxLog(row) == row.tag = "TxLog" /\ row.is_pad = 1
\* C27 as stated: in a table that satisfies the gates, on every enabled row
\* rw_diff is 1 if and only if the Memory or the TxLog lookup is active.
Cex_C27 ==
  pc = "table" =>
    \A o \in EnabledRows : RwDiff(region[o]) = 1 <=> RwLookupActive(region[o])
\* C27: in a table that satisfies the gates, on every enabled row rw_diff is
\* 0 or 1, it is 1 only if the Memory or the TxLog lookup is active, and it is
\* 1 if one of them is active unless the row has tag TxLog and is_pad = 1.
Thm_C27 ==
  pc = "table" =>
    \A o \in EnabledRows :
      /\ RwDiff(region[o]) \in {0, 1}
      /\ RwDiff(region[o]) = 1 => RwLookupActive(region[o])
      /\ (RwLookupActive(region[o]) /\ ~PaddedTxLog(region[o])) => RwDiff(region[o]) = 1
\* an accepted event of one byte: a padded read row with tag TxLog, which is
\* looked up without an increase, and a Memory write row, looked up with one
Wit_C27 ==
  /\ pc = "table" /\ offset = 2
  /\ PaddedTxLog(region[0]) /\ region[0].is_first = 1
  /\ TxLogLookupCond(region[0]) # 0 /\ RwDiff(region[0]) = 0
  /\ region[1].tag = "Memory" /\ region[1].is_last = 1
  /\ MemoryLookupCond(region[1]) # 0 /\ RwDiff(region[1]) = 1

\* tables under gate "verify step (q_step == 1)" alone: is_last and bytes_left
BytesTableCols == {"is_last", "bytes_left"}
BytesTableEnforced == Enforced({GateB}, BytesTableCols)
BytesTableRows == TableRows(BytesTableEnforced, BytesTableCols)
BytesTableNext == ChooseRow(BytesTableEnforced, BytesTableRows)
BytesTable == TableInit /\ [][BytesTableNext]_vars

\* C26: in a table that satisfies gate "verify step (q_step == 1)", for every
\* read row f and the first row l after it with is_last = 1, when l is a write
\* row, bytes_left[f] is the number of read rows among f..l.
Thm_C26 ==
  pc = "table" =>
    \A f \in DOMAIN region : \A l \in DOMAIN region :
      (/\ f < l
       /\ region[f].q_step = 1 /\ region[l].q_step = 0
       /\ region[l].is_last = 1
       /\ \A o \in f..(l - 1) : region[o].is_last # 1) =>
        region[f].bytes_left = (l - f + 1) \div 2
\* a run of two bytes that announces 2 on its first row and ends on its
\* fourth, the first write row carrying is_last = 0
Wit_C26 ==
  /\ pc = "table" /\ offset = 4 /\ event_start = 0
  /\ region[0].bytes_left = 2 /\ region[1].is_last = 0
  /\ region[2].bytes_left = 1 /\ region[3].is_last = 1

\* tables under the three gates: the flags, the tag, value and rlc_acc
RlcTableCols == {"tag", "is_first", "is_last", "is_pad", "value", "rlc_acc"}
RlcTableEnforced == Enforced({GateA, GateB, GateC}, RlcTableCols)
\* the constraints on value tell RlcAcc from the other tags only: Memory
\* stands for them
RlcTableRows ==
  LET table_rows == TableRows(RlcTableEnforced, RlcTableCols)
  IN [q_enable \in {0, 1} |->
        [q_step \in {0, 1} |->
           {row \in table_rows[q_enable][q_step] : row.tag \in {"Memory", "RlcAcc"}}]]
RlcTableNext == ChooseRow(RlcTableEnforced, RlcTableRows)
RlcTable == TableInit /\ [][RlcTableNext]_vars

\* the values of the read rows among rows f..l
ReadValues(rows, f, l) == [i \in 1..((l - f + 1) \div 2) |-> rows[f + 2 * (i - 1)].value]
\* C25: in a table that satisfies the three gates, for every run from a read
\* row f with is_first = 1 to the first row l with is_last = 1, with tag
\* RlcAcc on its write rows, value[l] is ((b_0*r + b_1)*r + ...)*r + b_{N-1}
\* over the values b_i of the run's read rows, and equals rlc_acc[f].
Thm_C25 ==
  pc = "table" =>
    \A f \in DOMAIN region : \A l \in DOMAIN region :
      (/\ f < l
       /\ region[f].q_step = 1 /\ region[f].is_first = 1
       /\ region[l].is_last = 1
       /\ \A o \in f..(l - 1) : region[o].is_last # 1
       /\ \A o \in f..l : region[o].q_step = 0 => region[o].tag = "RlcAcc") =>
        /\ region[l].value = fold_left(ReadValues(region, f, l), 0, randomness)
        /\ region[l].value = region[f].rlc_acc
\* a run of two bytes 1, 1 accumulated to 1*r + 1
Wit_C25 ==
  /\ pc = "table" /\ offset = 4 /\ event_start = 0
  /\ region[0].is_first = 1 /\ region[0].value = 1 /\ region[2].value = 1
  /\ region[1].tag = "RlcAcc" /\ region[3].tag = "RlcAcc"
  /\ region[1].is_last = 0 /\ region[3].is_last = 1
  /\ region[3].value = randomness + 1 /\ region[0].rlc_acc = randomness + 1

\* ------------------------------------------------------ the synthetic event
\* Events of eight bytes with src_addr_end = 4: the bytes read below
\* src_addr_end are 1, the padded ones 0.
SyntheticBytes(src_addr, src_addr_end) ==
  [i \in 1..8 |-> IF src_addr + (i - 1) < src_addr_end THEN <<1, TRUE>> ELSE <<0, FALSE>>]
SyntheticEvents ==
  UNION {
    [src_type : {tp[1]}, dst_type : {tp[2]},
     src_id : IdsOf(tp[1], 1), dst_id : IdsOf(tp[2], 2),
     src_addr : {a}, src_addr_end : {4}, dst_addr : DstAddrs,
     log_id : LogIds(tp[2]), rw_counter_start : RwCounterStarts,
     bytes : {SyntheticBytes(a, 4)}]
    : tp \in TypePairs, a \in 0..5}
\* assign_block on a block of one synthetic event
SyntheticEvent ==
  /\ pc = "events"
  /\ n_events = 0
  /\ \E e \in SyntheticEvents : StartEvent(e)
SyntheticNext ==
  \/ SyntheticEvent
  \/ AssignStep
  \/ AssignStepPanic
  \/ EndSteps
  \/ EndEvents
  \/ AssignPaddingRow
  \/ Return
Synthetic == Init /\ [][SyntheticNext]_vars

TamperPad(rows, o, v) == [rows EXCEPT ![o].is_pad = v]
\* the read row at offset k of the running event reads at or past src_addr_end
ReadsPastEnd(k) ==
  /\ Even(k - event_start)
  /\ copy_event.src_addr + ((k - event_start) \div 2) >= copy_event.src_addr_end
\* C22 as stated: after is_pad is forced to 0 on row 5 of the rows of an event
\* with src_addr_end = 4 and N = 8, the constraint "is_pad == 1 - (src_addr <
\* src_addr_end) for read row" fails on some row of the event.
Cex_C22 ==
  EventComplete =>
    LET tampered == TamperPad(region, event_start + 5, 0)
    IN \E o \in EventOffsets : GateStepActive(tampered[o]) /\ ~B_IsPad(tampered[o])
\* C22: on the rows of an event with src_addr_end = 4 and N = 8, every read
\* row that reads at or past src_addr_end has is_pad = 1 and satisfies the
\* constraint, and after its is_pad is forced to 0 the constraint fails on it.
Thm_C22 ==
  EventComplete =>
    \A k \in EventOffsets :
      ReadsPastEnd(k) =>
        /\ region[k].is_pad = 1
        /\ GateStepActive(region[k]) /\ B_IsPad(region[k])
        /\ ~B_IsPad(TamperPad(region, k, 0)[k])
\* src_addr = 0: bytes 4..7 are padded, the read row of byte 5 is row 10, and
\* row 5 is the write row of byte 2
Wit_C22 ==
  /\ EventComplete /\ copy_event.src_addr = 0
  /\ ReadsPastEnd(event_start + 10) /\ region[event_start + 10].is_pad = 1
  /\ ~ReadsPastEnd(event_start + 6) /\ region[event_start + 6].is_pad = 0
  /\ region[event_start + 5].q_step = 0 /\ region[event_start + 5].is_pad = 0
====
